---- MODULE Spec2Model ----
(***************************************************************************)
(* PowerForecaster (power_predictor.py): a forecasting harness that takes  *)
(* a power/temperature table, keeps a copy of it, interpolates the         *)
(* temperature, normalises the features, splits them into train and test   *)
(* parts and fits / predicts with one of four models.                      *)
(*                                                                         *)
(* Time is counted in steps of DEFAULT_FUTURE_FREQ (15 minutes) relative   *)
(* to CUTOFF_DATE (midnight of 2013-12-01), so a day is StepsPerDay steps  *)
(* and the rows before the cutoff have negative time stamps.               *)
(*                                                                         *)
(* Python values are records with a "kind" field: DataFrame, Series,       *)
(* ndarray, None, and the results of the fitted models.                    *)
(***************************************************************************)
EXTENDS Integers, Sequences, FiniteSets, TLC

\* ------------------------------------------------------------------ bounds
SmallRows == 3      \* small inputs have 0..SmallRows rows before the cutoff
BigBlocks == 2      \* the large input has BigBlocks * DEFAULT_FUTURE_PERIODS rows
MaxTail == 1        \* rows at or after the cutoff date: 0..MaxTail
MaxVal == 1         \* readings are 0..MaxVal
MaxMissing == 2     \* rows at the end of the input without a temperature: 0..MaxMissing

\* --------------------------------------------------------------- constants
TRAIN_TEST_SPLIT_RATIO == [num |-> 4, den |-> 5]     \* 0.8
CUTOFF_DATE == 0
StepsPerDay == 4 * 24
DEFAULT_FUTURE_PERIODS == 4 * 24 * 10
WINDOW_TIME_STEPS == 4
FEATURE_SIZE == 3

POWER == "actual_kwh"
TEMPERATURE == "actual_temperature"
LABEL == "y"
FORECAST == "yhat"
DATE_STAMP == "ds"
DATETIME == "date+time"
FEATURES == <<LABEL, TEMPERATURE>>
LABELS == <<LABEL>>
ORIGINAL_FEATURES == <<POWER, TEMPERATURE>>


\* the members of Models, and a value that is none of them
KnownModels == {"PROPHET", "ARIMA", "VAR", "LSTM"}
ModelValues == KnownModels \cup {"UNDEFINED"}

\* the input shape the LSTM network is declared with
LstmInputShape == <<WINDOW_TIME_STEPS, FEATURE_SIZE>>

None == [kind |-> "None"]

VARIABLES
    pc,             \* "start" before __init__ and "ready" after it; "fitted" when fit() is
                    \* the one call made since, "predicted" when fit() and then predict()
                    \* are the two calls made since, "used" after any other calls
    arg,            \* the constructor's arguments: model, ratio and what generates df
    df_caller,      \* the caller's DataFrame object (the constructor writes into it)
    df_original,    \* self.df_original
    df,             \* self.df
    testing,        \* self.testing
    model,          \* self.model
    ratio,          \* self.train_test_split_ratio
    train_X, test_X, train_y, test_y,
    model_fit,      \* self.model_fit
    history,        \* self.history
    future,         \* self.future
    prophet,        \* the state of the shared Models.PROPHET.value object
    lstm,           \* the state of the shared Models.LSTM.value object
    last,           \* the method called last
    routine,        \* the model-specific routine the last fit()/predict() dispatched to
    outcome,        \* how the last call ended: "ok" or the exception raised
    returned        \* the value the last call returned

vars == <<pc, arg, df_caller, df_original, df, testing, model, ratio,
          train_X, test_X, train_y, test_y, model_fit, history, future,
          prophet, lstm, last, routine, outcome, returned>>

\* a missing reading (numpy NaN)
NaN == -1

\* ----------------------------------------------------------------- tables
Min(a, b) == IF a < b THEN a ELSE b
Max(a, b) == IF a > b THEN a ELSE b

\* a sequence given by a rule, written out element by element
Stored(s) == s \o <<>>

DataFrame(index, columns, data) ==
    [kind |-> "DataFrame", index |-> Stored(index), columns |-> columns, data |-> Stored(data)]

Series(index, name, data) ==
    [kind |-> "Series", index |-> Stored(index), name |-> name, data |-> Stored(data)]

NRows(t) == Len(t.index)

ColPos(columns, name) == CHOOSE j \in 1..Len(columns) : columns[j] = name

HasColumns(t, names) ==
    /\ t.kind = "DataFrame"
    /\ \A k \in 1..Len(names) : \E j \in 1..Len(t.columns) : t.columns[j] = names[k]

\* df[names]
Select(t, names) ==
    LET pos == Stored([k \in 1..Len(names) |-> ColPos(t.columns, names[k])])
    IN  DataFrame(t.index, names,
                  [i \in 1..Len(t.data) |-> Stored([k \in 1..Len(names) |-> t.data[i][pos[k]]])])

\* df[name] as the sequence of its values
Column(t, name) ==
    LET j == ColPos(t.columns, name)
    IN  Stored([i \in 1..Len(t.data) |-> t.data[i][j]])

\* a slice bound as Python reads it on n rows: a negative bound counts from the end,
\* and the result is clipped to 0..n
SliceBound(k, n) == IF k < 0 THEN Max(n + k, 0) ELSE Min(k, n)

\* df.iloc[lo:hi, :] with 0-based lo (inclusive) and hi (exclusive)
Iloc(t, lo, hi) ==
    LET a == SliceBound(lo, NRows(t))
        b == SliceBound(hi, NRows(t))
    IN  [t EXCEPT !.index = SubSeq(t.index, a + 1, b), !.data = SubSeq(t.data, a + 1, b)]

\* df[mask]: the rows at which the boolean sequence mask holds, in their order
RowsWhere(t, mask) ==
    LET sel == SelectSeq(Stored([i \in 1..NRows(t) |-> i]), LAMBDA i : mask[i])
    IN  DataFrame([k \in 1..Len(sel) |-> t.index[sel[k]]], t.columns,
                  [k \in 1..Len(sel) |-> t.data[sel[k]]])

\* df.dropna(): the rows without a missing value
DropNa(t) ==
    LET sel == SelectSeq(Stored([i \in 1..NRows(t) |-> i]),
                         LAMBDA i : \A j \in 1..Len(t.columns) : t.data[i][j] # NaN)
    IN  DataFrame([k \in 1..Len(sel) |-> t.index[sel[k]]], t.columns,
                  [k \in 1..Len(sel) |-> t.data[sel[k]]])

\* df[name] = values (a new column is appended, an existing one overwritten)
WithColumn(t, name, values) ==
    IF \E j \in 1..Len(t.columns) : t.columns[j] = name
    THEN LET j == ColPos(t.columns, name)
         IN  DataFrame(t.index, t.columns,
                       [i \in 1..Len(t.data) |-> [t.data[i] EXCEPT ![j] = values[i]]])
    ELSE DataFrame(t.index, Append(t.columns, name),
                   [i \in 1..Len(t.data) |-> Append(t.data[i], values[i])])

\* df.rename(columns={old: new})
Rename(t, old, new) ==
    [t EXCEPT !.columns = Stored([j \in 1..Len(t.columns) |->
                              IF t.columns[j] = old THEN new ELSE t.columns[j]])]

\* ------------------------------------------------- PowerForecaster.__init__
\* the table the caller passes: the date and time of each row, its power reading and
\* its temperature reading; a.rows rows lie before the cutoff date and a.tail rows at
\* or after it, one every 15 minutes, and the last a.missing rows have no temperature
InputFrame(a) ==
    LET n == a.rows + a.tail
    IN  DataFrame([i \in 1..n |-> i - 1],
                  <<DATETIME, POWER, TEMPERATURE>>,
                  [i \in 1..n |-> << CUTOFF_DATE - a.rows + (i - 1),
                                     i % (MaxVal + 1),
                                     IF i > n - a.missing THEN NaN
                                     ELSE (i \div 2) % (MaxVal + 1) >>])

\* df.index = pd.to_datetime(df[DATE] + df[TIME], ...)
SetDatetimeIndex(t) == [t EXCEPT !.index = Column(t, DATETIME)]

\* self.df_original = df, a second name for the frame: it shows what is written
\* into the frame afterwards
DetachedAlias(snapshot, live) == live

\* self.df_original = df.copy(): the copy is detached from the frame it was taken
\* from, so what is written into that frame afterwards (live) does not show in it
DetachedCopy(snapshot, live) == snapshot

\* facebook_prophet_filter: a forecast (yhat) of the column for every row of the table
facebook_prophet_filter(t, seed) == Stored([i \in 1..NRows(t) |-> (seed + i) % (MaxVal + 1)])

\* QuantileTransformer: every value is mapped to its quantile within its column,
\* here in thousandths (0 is the lowest sample, 1000 the highest)
QuantileTransform(col) ==
    LET n == Len(col)
        vals == {col[i] : i \in 1..n}
        Quantile(v) ==
            LET less == Cardinality({i \in 1..n : col[i] < v})
                upto == Cardinality({i \in 1..n : col[i] <= v})
            IN  IF n = 1 THEN 0 ELSE (1000 * (less + upto - 1)) \div (2 * (n - 1))
        q == [v \in vals |-> Quantile(v)] @@ <<>>
    IN  Stored([i \in 1..n |-> q[col[i]]])

\* normalize(df, columns, transformer)
RECURSIVE normalize(_, _)
normalize(t, columns) ==
    IF columns = <<>> THEN t
    ELSE normalize(WithColumn(t, Head(columns), QuantileTransform(Column(t, Head(columns)))),
                   Tail(columns))

\* the cut rounded up instead of down
SplitIndexCeil(r, n) == (r.num * n + r.den - 1) \div r.den

\* 2^s modulo d
RECURSIVE Pow2Mod(_, _)
Pow2Mod(s, d) == IF s = 0 THEN 1 % d ELSE (2 * Pow2Mod(s - 1, d)) % d

RECURSIVE Pow2(_)
Pow2(e) == IF e = 0 THEN 1 ELSE 2 * Pow2(e - 1)

\* the binary exponent u of a / d for a, d > 0: 2^u <= a / d < 2^(u + 1)
RECURSIVE BinaryExponent(_, _)
BinaryExponent(a, d) ==
    IF a < d THEN BinaryExponent(2 * a, d) - 1
    ELSE IF a < 2 * d THEN 0
    ELSE BinaryExponent(a, 2 * d) + 1

\* the binary exponent of a whole number f >= 1
RECURSIVE FloorLog2(_)
FloorLog2(f) == IF f < 2 THEN 0 ELSE FloorLog2(f \div 2) + 1

\* int(x * n) for the double x nearest to a / d (a, d > 0, n >= 0): the product is
\* rounded to the nearest double (53 significant bits, ties to even) and truncated.
\* When a * n / d is not whole it is too far from a whole number for the rounding to
\* matter. When it is a whole number f, the double x is exact or above a / d and the
\* product is f, or x is below a / d by rest / (d * 2^(52 - u)) and the product is f
\* only if it rounds up to f, that is if it lies no further from f than half the
\* distance from f to the double before it.
TruncatedProduct(a, d, n) ==
    LET f == (a * n) \div d
        u == BinaryExponent(a, d)
        rest == (a * Pow2Mod(52 - u, d)) % d
        m == FloorLog2(f)
        half == IF f = Pow2(m) THEN 4 ELSE 2
    IN  IF a * n = 0 THEN 0
        ELSE IF (a * n) % d # 0 THEN f
        ELSE IF rest = 0 \/ 2 * rest > d THEN f
        ELSE IF half * n * rest <= d * Pow2(m - u) THEN f
        ELSE f - 1

\* int(self.train_test_split_ratio * df.shape[0]): the ratio is the double nearest to
\* num / den, the product is a double, and int() drops its fraction (towards zero)
SplitIndex(r, n) ==
    IF r.num < 0 THEN 0 - TruncatedProduct(0 - r.num, r.den, n)
    ELSE TruncatedProduct(r.num, r.den, n)

\* train_test_split(df): (train, test)
train_test_split(r, t) ==
    LET split_index == SplitIndex(r, NRows(t))
    IN  << Iloc(t, 0, split_index), Iloc(t, split_index, NRows(t)) >>

\* the ratios passed: the default, the ends of [0, 1], two ratios within it (1/2 is a
\* double, 41/80 is not), and one below 0, which __init__ accepts as well
Ratios == { [num |-> 0, den |-> 1], [num |-> 1, den |-> 2], [num |-> 41, den |-> 80],
            TRAIN_TEST_SPLIT_RATIO, [num |-> 1, den |-> 1], [num |-> 0 - 1, den |-> 2] }

\* the inputs: every small table, and one table long enough to forecast from
RowCounts == (0..SmallRows) \cup {BigBlocks * DEFAULT_FUTURE_PERIODS}

Readings == 0..MaxVal

Arguments ==
    { a \in [model : ModelValues, ratio : Ratios, rows : RowCounts, tail : 0..MaxTail,
             missing : 0..MaxMissing] :
        /\ a.rows + a.tail >= 1
        /\ (a.rows > SmallRows => a.tail = 0 /\ a.missing = MaxMissing) }

Init ==
    /\ pc = "start"
    /\ arg \in Arguments
    /\ df_caller = InputFrame(arg)
    /\ df_original = None
    /\ df = None
    /\ testing = None
    /\ model = "unset"
    /\ ratio = [num |-> 0, den |-> 1]
    /\ train_X = None /\ test_X = None /\ train_y = None /\ test_y = None
    /\ model_fit = None
    /\ history = None
    /\ future = None
    /\ prophet = [fitted |-> FALSE, last |-> 0]
    /\ lstm = [trained |-> FALSE]
    /\ last = "__init__"
    /\ routine = "none"
    /\ outcome = "ok"
    /\ returned = None

PowerForecaster_init ==
    /\ pc = "start"
    /\ \E seed \in Readings :
       \E indexed \in {SetDatetimeIndex(df_caller)} :
       \E interpolated \in {WithColumn(indexed, TEMPERATURE, facebook_prophet_filter(indexed, seed))} :
       \E normalized \in {normalize(Rename(interpolated, POWER, LABEL), FEATURES)} :
       \E before \in {RowsWhere(normalized, Stored([i \in 1..NRows(normalized) |-> normalized.index[i] < CUTOFF_DATE]))} :
       \E self_df \in {WithColumn(before, DATE_STAMP, before.index)} :
       \E X \in {train_test_split(arg.ratio, Select(self_df, FEATURES))} :
       \E y \in {train_test_split(arg.ratio, Select(self_df, LABELS))} :
            /\ df_caller' = interpolated
            /\ df_original' = DetachedCopy(indexed, interpolated)
            /\ df' = self_df
            /\ testing' = RowsWhere(normalized, Stored([i \in 1..NRows(normalized) |-> normalized.index[i] >= CUTOFF_DATE]))
            /\ train_X' = X[1] /\ test_X' = X[2]
            /\ train_y' = y[1] /\ test_y' = y[2]
    /\ ratio' = arg.ratio
    /\ model' = arg.model
    /\ model_fit' = None
    /\ history' = None
    /\ pc' = "ready"
    /\ UNCHANGED <<arg, future, prophet, lstm, last, routine, outcome, returned>>

\* ------------------------------------------------------------ bookkeeping
\* a call of method name is recorded
Called(name) ==
    /\ last' = name
    /\ pc' = IF pc = "ready" /\ name = "fit" THEN "fitted"
             ELSE IF pc = "fitted" /\ name = "predict" THEN "predicted"
             ELSE "used"

\* --------------------------------------------------------- lstm_preprocess
\* series_to_supervised(data, columns, label, 1, 1): every row but the first, holding
\* the features of the row before it and, last, the label of the row itself
series_to_supervised(t, columns, label) ==
    LET n == NRows(t)
        lagged == Select(t, columns)
        target == Column(t, label)
    IN  DataFrame([k \in 1..Max(n - 1, 0) |-> t.index[k + 1]],
                  [j \in 1..Len(columns) |-> columns[j] \o "(t-1)"] \o <<label \o "(t)">>,
                  [k \in 1..Max(n - 1, 0) |-> Append(lagged.data[k], target[k + 1])])

\* df.iloc[:, :-1]
AllButLastColumn(t) ==
    DataFrame(t.index, SubSeq(t.columns, 1, Len(t.columns) - 1),
              [i \in 1..NRows(t) |-> SubSeq(t.data[i], 1, Len(t.columns) - 1)])

\* df.iloc[:, -1]
LastColumn(t) ==
    Series(t.index, t.columns[Len(t.columns)],
           [i \in 1..NRows(t) |-> t.data[i][Len(t.columns)]])

NCols(t) == Len(t.columns)

\* numpy refuses a reshape that changes the number of elements
CanReshape(t, shape) == NRows(t) * NCols(t) = shape[1] * shape[2] * shape[3]

\* df.values.reshape(shape): the elements in row-major order under the new shape
Reshape(t, shape) ==
    [kind |-> "ndarray", shape |-> shape,
     flat |-> Stored([k \in 1..(NRows(t) * NCols(t)) |->
                        t.data[((k - 1) \div NCols(t)) + 1][((k - 1) % NCols(t)) + 1]])]

\* the shape lstm_preprocess asks for: (rows, WINDOW_TIME_STEPS, columns)
LstmShape(t) == <<NRows(t), WINDOW_TIME_STEPS, NCols(t)>>

\* lstm_preprocess(self.df)
lstm_preprocess ==
    /\ pc # "start"
    /\ \E reframed \in {series_to_supervised(Select(df, FEATURES), FEATURES, LABEL)} :
       \E split \in {train_test_split(ratio, reframed)} :
       \E tr \in {AllButLastColumn(split[1])} :
       \E te \in {AllButLastColumn(split[2])} :
            /\ train_y' = LastColumn(split[1])
            /\ test_y' = LastColumn(split[2])
            /\ train_X' = IF CanReshape(tr, LstmShape(tr)) THEN Reshape(tr, LstmShape(tr))
                          ELSE train_X
            /\ test_X' = IF CanReshape(tr, LstmShape(tr)) /\ CanReshape(te, LstmShape(te))
                         THEN Reshape(te, LstmShape(te))
                         ELSE test_X
            /\ outcome' = IF CanReshape(tr, LstmShape(tr)) /\ CanReshape(te, LstmShape(te))
                          THEN "ok" ELSE "ValueError"
    /\ Called("lstm_preprocess")
    /\ routine' = "none"
    /\ returned' = None
    /\ UNCHANGED <<arg, df_caller, df_original, df, testing, model, ratio,
                   model_fit, history, future, prophet, lstm>>

\* ---------------------------------------------------------- sliding_window
\* Constants.WINDOW_TIME_STEPS, the member of the enumeration (not its value)
ConstantsMember(name, value) == [kind |-> "Constants", name |-> name, value |-> value]
PyInt(value) == [kind |-> "int", value |-> value]

\* int - x is defined for an int x only
CanSubtract(x, y) == x.kind = "int" /\ y.kind = "int"

\* int(*x) unpacks x, which must be iterable
CanUnpack(x) == x.kind \in {"list", "tuple", "ndarray"}

\* how sliding_window ends: at line 313 on length0 - window_size, and were that
\* defined, at line 330 on int( * length), before anything is stored in self
SlidingWindowOutcome(t) ==
    LET length0 == PyInt(NRows(t))
        window_size == ConstantsMember("WINDOW_TIME_STEPS", WINDOW_TIME_STEPS)
    IN  IF ~CanSubtract(length0, window_size) THEN "TypeError"
        ELSE IF ~CanUnpack(PyInt(length0.value - window_size.value)) THEN "TypeError"
        ELSE "ok"

sliding_window ==
    /\ pc # "start"
    /\ outcome' = SlidingWindowOutcome(df)
    /\ outcome' # "ok"
    /\ Called("sliding_window")
    /\ routine' = "none"
    /\ returned' = None
    /\ UNCHANGED <<arg, df_caller, df_original, df, testing, model, ratio,
                   train_X, test_X, train_y, test_y, model_fit, history, future,
                   prophet, lstm>>

\* --------------------------------------------------------------------- fit
\* a fit() whose last branch takes every remaining model
FitRoutineFallThrough(m) ==
    CASE m = "PROPHET" -> "prophet_fit"
      [] m = "ARIMA" -> "arima_fit"
      [] m = "VAR" -> "var_fit"
      [] OTHER -> "lstm_fit_simple"

\* the branch of fit() taken for a model
FitRoutine(m) ==
    CASE m = "PROPHET" -> "prophet_fit"
      [] m = "ARIMA" -> "arima_fit"
      [] m = "VAR" -> "var_fit"
      [] m = "LSTM" -> "lstm_fit_simple"
      [] OTHER -> "none"

LastStamp(t) == t.index[NRows(t)]

\* Prophet.fit(past): a Prophet object is fitted once, on a frame with the columns
\* ds and y and at least two rows
ProphetFitOutcome(past) ==
    IF prophet.fitted THEN "Exception"
    ELSE IF ~(past.kind = "DataFrame" /\ HasColumns(past, <<DATE_STAMP, LABEL>>)) THEN "ValueError"
    ELSE IF NRows(past) < 2 THEN "ValueError"
    ELSE "ok"

\* prophet_fit: past is train_y with its index as the column ds
prophet_fit ==
    LET past == IF train_y.kind = "DataFrame"
                THEN WithColumn(train_y, DATE_STAMP, train_y.index)
                ELSE train_y
    IN  /\ outcome' = ProphetFitOutcome(past)
        /\ prophet' = IF ProphetFitOutcome(past) = "ok"
                      THEN [fitted |-> TRUE, last |-> LastStamp(past)]
                      ELSE prophet
        /\ UNCHANGED <<model_fit, history, lstm>>

\* what is kept of a fitted statistical model: the time span and size of its data
FittedResults(kind, t) ==
    [kind |-> kind, nobs |-> NRows(t), first |-> t.index[1], last |-> LastStamp(t)]

\* arima_fit: SARIMAX(self.train_y, ...).fit(), which needs observations
arima_fit ==
    /\ outcome' = IF NRows(train_y) >= 1 THEN "ok" ELSE "ValueError"
    /\ model_fit' = IF NRows(train_y) >= 1 THEN FittedResults("SARIMAXResults", train_y)
                    ELSE model_fit
    /\ UNCHANGED <<history, prophet, lstm>>

\* var_fit: VAR(endog=self.train_X[FEATURES].dropna()).fit(); a lag of one needs
\* two observations, and an array cannot be indexed by column names
VarFitOutcome ==
    IF train_X.kind # "DataFrame" THEN "IndexError"
    ELSE IF ~HasColumns(train_X, FEATURES) THEN "KeyError"
    ELSE IF NRows(DropNa(Select(train_X, FEATURES))) < 2 THEN "ValueError"
    ELSE "ok"

var_fit ==
    /\ outcome' = VarFitOutcome
    /\ model_fit' = IF VarFitOutcome = "ok"
                    THEN FittedResults("VARResults", DropNa(Select(train_X, FEATURES)))
                    ELSE model_fit
    /\ UNCHANGED <<history, prophet, lstm>>

\* the LSTM network takes a non-empty array of shape (samples,) + its declared input shape
LstmAccepts(x) ==
    /\ x.kind = "ndarray"
    /\ x.shape[1] >= 1
    /\ <<x.shape[2], x.shape[3]>> = LstmInputShape

\* lstm_fit_simple: model.fit(train_X, train_y, validation_data=(test_X, test_y), ...)
lstm_fit_simple ==
    LET accepted == LstmAccepts(train_X) /\ LstmAccepts(test_X)
    IN  /\ outcome' = IF accepted THEN "ok" ELSE "ValueError"
        /\ history' = IF accepted THEN [kind |-> "dict", keys |-> {"loss", "val_loss"}]
                      ELSE history
        /\ lstm' = IF accepted THEN [trained |-> TRUE] ELSE lstm
        /\ UNCHANGED <<model_fit, prophet>>

\* lstm_fit: Models.LSTM.value.fit(train_X, train_y, validation_split=0.35, ...),
\* whatever self.model is; the history it returns is plotted and not kept in self
lstm_fit ==
    /\ pc # "start"
    /\ outcome' = IF LstmAccepts(train_X) THEN "ok" ELSE "ValueError"
    /\ lstm' = IF LstmAccepts(train_X) THEN [trained |-> TRUE] ELSE lstm
    /\ Called("lstm_fit")
    /\ routine' = "none"
    /\ returned' = None
    /\ UNCHANGED <<arg, df_caller, df_original, df, testing, model, ratio,
                   train_X, test_X, train_y, test_y, model_fit, history, future, prophet>>

FitUndefined ==
    /\ outcome' = "ValueError"
    /\ UNCHANGED <<model_fit, history, prophet, lstm>>

fit ==
    /\ pc # "start"
    /\ routine' = FitRoutine(model)
    /\ CASE FitRoutine(model) = "prophet_fit" -> prophet_fit
         [] FitRoutine(model) = "arima_fit" -> arima_fit
         [] FitRoutine(model) = "var_fit" -> var_fit
         [] FitRoutine(model) = "lstm_fit_simple" -> lstm_fit_simple
         [] OTHER -> FitUndefined
    /\ Called("fit")
    /\ returned' = None
    /\ UNCHANGED <<arg, df_caller, df_original, df, testing, model, ratio,
                   train_X, test_X, train_y, test_y, future>>

\* ----------------------------------------------------------------- predict
\* the branch of predict() taken for a model
PredictRoutine(m) ==
    CASE m = "PROPHET" -> "prophet_predict"
      [] m = "ARIMA" -> "arima_predict"
      [] m = "VAR" -> "var_predict"
      [] m = "LSTM" -> "lstm_predict"
      [] OTHER -> "none"

\* the stand-in for the number a model forecasts for time t
Forecast(t) == t % (MaxVal + 1)

\* make_future_dataframe(periods, freq, include_history=False): the periods stamps
\* that follow the last stamp the Prophet object was fitted on
make_future_dataframe(periods) ==
    DataFrame([i \in 1..periods |-> i - 1], <<DATE_STAMP>>,
              [i \in 1..periods |-> <<prophet.last + i>>])

\* Prophet.predict(future), then predicted[LABEL] = predicted[FORECAST]
ProphetPredicted(fut) ==
    LET predicted == DataFrame(fut.index, <<DATE_STAMP, FORECAST>>,
                               [i \in 1..NRows(fut) |-> <<fut.data[i][1], Forecast(fut.data[i][1])>>])
    IN  WithColumn(predicted, LABEL, Column(predicted, FORECAST))

\* the PROPHET branches of predict(); an unfitted Prophet object has no history to
\* continue
prophet_predict ==
    /\ outcome' = IF prophet.fitted THEN "ok" ELSE "Exception"
    /\ future' = IF prophet.fitted THEN make_future_dataframe(DEFAULT_FUTURE_PERIODS) ELSE future
    /\ returned' = IF prophet.fitted
                   THEN ProphetPredicted(make_future_dataframe(DEFAULT_FUTURE_PERIODS))
                   ELSE None

\* str(stamp)[:10]: the date of a stamp, which as a stamp is the midnight opening it
DateOf(t) == t - (t % StepsPerDay)

\* arima_predict(future): how it ends
ArimaPredictOutcome(periods) ==
    IF NRows(train_y) < 1 THEN "IndexError"
    ELSE IF NRows(train_y) < periods THEN "IndexError"
    ELSE IF model_fit.kind = "None" THEN "AttributeError"
    ELSE IF DateOf(train_y.index[NRows(train_y) - periods + 1]) < model_fit.first THEN "KeyError"
    ELSE IF DateOf(train_y.index[NRows(train_y) - periods + 1]) > model_fit.last + 1 THEN "ValueError"
    ELSE "ok"

\* arima_predict(future): model_fit.predict(start=start[:10], end=end[:10], dynamic=True),
\* a value for every stamp from the date of train_y.index[-future] to the date of
\* train_y.index[-1]
ArimaPredicted(periods) ==
    LET end == DateOf(train_y.index[NRows(train_y)])
        start == DateOf(train_y.index[NRows(train_y) - periods + 1])
    IN  Series([i \in 1..(end - start + 1) |-> start + i - 1], "predicted_mean",
               [i \in 1..(end - start + 1) |-> Forecast(start + i - 1)])

arima_predict ==
    /\ outcome' = ArimaPredictOutcome(DEFAULT_FUTURE_PERIODS)
    /\ returned' = IF ArimaPredictOutcome(DEFAULT_FUTURE_PERIODS) = "ok"
                   THEN ArimaPredicted(DEFAULT_FUTURE_PERIODS)
                   ELSE None
    /\ UNCHANGED future

\* var_predict(future): how it ends; predicted has future rows and is given the
\* first future stamps of test_y as its index, which must be as many
VarPredictOutcome(periods) ==
    IF model_fit.kind = "None" THEN "AttributeError"
    ELSE IF NRows(test_y) < periods THEN "ValueError"
    ELSE "ok"

VarPredicted(periods) ==
    DataFrame(SubSeq(test_y.index, 1, periods), FEATURES,
              [i \in 1..periods |-> [j \in 1..Len(FEATURES) |-> Forecast(model_fit.last + i)]])

var_predict ==
    /\ outcome' = VarPredictOutcome(DEFAULT_FUTURE_PERIODS)
    /\ returned' = IF VarPredictOutcome(DEFAULT_FUTURE_PERIODS) = "ok"
                   THEN VarPredicted(DEFAULT_FUTURE_PERIODS)
                   ELSE None
    /\ UNCHANGED future

\* model.predict(self.test_X): one value for each sample
lstm_predict ==
    /\ outcome' = IF LstmAccepts(test_X) THEN "ok" ELSE "ValueError"
    /\ returned' = IF LstmAccepts(test_X)
                   THEN [kind |-> "ndarray", shape |-> <<test_X.shape[1], 1>>,
                         flat |-> Stored([i \in 1..test_X.shape[1] |-> Forecast(i)])]
                   ELSE None
    /\ UNCHANGED future

PredictUndefined ==
    /\ outcome' = "ValueError"
    /\ returned' = None
    /\ UNCHANGED future

predict ==
    /\ pc # "start"
    /\ routine' = PredictRoutine(model)
    /\ CASE PredictRoutine(model) = "prophet_predict" -> prophet_predict
         [] PredictRoutine(model) = "arima_predict" -> arima_predict
         [] PredictRoutine(model) = "var_predict" -> var_predict
         [] PredictRoutine(model) = "lstm_predict" -> lstm_predict
         [] OTHER -> PredictUndefined
    /\ Called("predict")
    /\ UNCHANGED <<arg, df_caller, df_original, df, testing, model, ratio,
                   train_X, test_X, train_y, test_y, model_fit, history, prophet, lstm>>

Next ==
    \/ PowerForecaster_init
    \/ lstm_preprocess
    \/ sliding_window
    \/ fit
    \/ lstm_fit
    \/ predict

Spec == Init /\ [][Next]_vars

\* ------------------------------------------------------------------ claims
\* the tables hold enough rows for every model to fit and to forecast
\* DEFAULT_FUTURE_PERIODS steps
EnoughData ==
    /\ train_y.kind = "DataFrame" /\ NRows(train_y) >= DEFAULT_FUTURE_PERIODS
    /\ test_y.kind = "DataFrame" /\ NRows(test_y) >= DEFAULT_FUTURE_PERIODS

\* C1: whichever of the four models the forecaster is constructed with, fit() followed
\* by predict(), with no other call in between, returns a prediction (stated for
\* tables with enough rows for every model).
C1_Interchangeable ==
    (pc = "predicted" /\ model \in KnownModels /\ EnoughData)
        => (outcome = "ok" /\ returned.kind # "None")

\* the time points the value returned by predict() covers
CoveredStamps(p) ==
    IF p.kind = "Series" THEN {p.index[i] : i \in 1..Len(p.index)}
    ELSE IF p.kind = "DataFrame" /\ HasColumns(p, <<DATE_STAMP>>)
         THEN {p.data[i][ColPos(p.columns, DATE_STAMP)] : i \in 1..Len(p.data)}
    ELSE IF p.kind = "DataFrame" THEN {p.index[i] : i \in 1..Len(p.index)}
    ELSE {}

\* the last time point of the data the configured model was fitted on
FittedUntil == IF model = "PROPHET" THEN prophet.last ELSE model_fit.last

\* C2: every time point covered by what predict() returns lies strictly after the
\* last time point of the training data the model was fitted on.
C2_FuturePredictions ==
    (last = "predict" /\ outcome = "ok")
        => \A t \in CoveredStamps(returned) : t > FittedUntil

\* C2 for the models other than ARIMA
C2_FutureExceptArima ==
    (last = "predict" /\ outcome = "ok" /\ model # "ARIMA")
        => \A t \in CoveredStamps(returned) : t > FittedUntil

\* C3: fit() and predict() take the one branch of the configured model, and with a
\* model that is none of the four they end in a ValueError and leave model_fit,
\* history, train_X, train_y, test_X and test_y as they were.
C3_Dispatch ==
    [][ (pc # "start" /\ last' \in {"fit", "predict"}) =>
          /\ (model = "PROPHET" => routine' \in {"prophet_fit", "prophet_predict"})
          /\ (model = "ARIMA" => routine' \in {"arima_fit", "arima_predict"})
          /\ (model = "VAR" => routine' \in {"var_fit", "var_predict"})
          /\ (model = "LSTM" => routine' \in {"lstm_fit_simple", "lstm_predict"})
          /\ (model \notin KnownModels =>
                /\ routine' = "none"
                /\ outcome' = "ValueError"
                /\ UNCHANGED <<model_fit, history, train_X, train_y, test_X, test_y>>)
      ]_vars

C3_Witness ==
    /\ model \notin KnownModels
    /\ last = "fit"
    /\ outcome = "ValueError"
    /\ train_X.kind = "DataFrame" /\ NRows(train_X) >= 1

\* C4: sliding_window() completes and leaves n - w samples, sample i being the w
\* consecutive values of one series from position i on, paired with the value of that
\* series at position i + w (the samples are split between train and test in order).
C4_SlidingWindow ==
    last = "sliding_window" =>
        /\ outcome = "ok"
        /\ train_X.kind = "ndarray" /\ test_X.kind = "ndarray"
        /\ train_y.kind = "ndarray" /\ test_y.kind = "ndarray"
        /\ LET w == WINDOW_TIME_STEPS
               series == Column(df, LABEL)
               data == train_X.flat \o test_X.flat
               label == train_y.flat \o test_y.flat
           IN  /\ Len(label) = NRows(df) - w
               /\ Len(data) = (NRows(df) - w) * w
               /\ \A i \in 1..(NRows(df) - w) :
                    /\ SubSeq(data, (i - 1) * w + 1, i * w) = SubSeq(series, i, i + w - 1)
                    /\ label[i] = series[i + w]

\* the ratio lies in [0, 1]
RatioInRange == 0 <= ratio.num /\ ratio.num <= ratio.den

\* train and test are the rows of whole before and from position k on, in their order
SplitsAt(whole, train, test, k) ==
    /\ NRows(train) = k
    /\ NRows(train) + NRows(test) = NRows(whole)
    /\ \A i \in 1..NRows(whole) :
         IF i <= k
         THEN train.index[i] = whole.index[i] /\ train.data[i] = whole.data[i]
         ELSE test.index[i - k] = whole.index[i] /\ test.data[i - k] = whole.data[i]

\* C5 as stated: train_test_split cuts a table of n rows at floor(ratio * n) for every
\* ratio in [0, 1]: train is the rows before the cut, test the rows from it on, in
\* their order, so every row of the table is in exactly one of them.
C5_SplitAtFloor ==
    (pc = "ready" /\ RatioInRange) =>
        LET n == NRows(df)
            k == NRows(train_X)
        IN  /\ k * ratio.den <= ratio.num * n
            /\ ratio.num * n < (k + 1) * ratio.den
            /\ SplitsAt(Select(df, FEATURES), train_X, test_X, k)
            /\ SplitsAt(Select(df, LABELS), train_y, test_y, k)

\* C5 amended: train_test_split cuts a table of n rows at k = int(ratio * n) as
\* double-precision arithmetic computes it, train being the rows before the cut and
\* test the rows from it on, in their order, so every row is in exactly one of them.
\* k is floor(ratio * n) when ratio * n is not within rounding distance of a whole
\* number; when ratio * n is a whole number w, k is w if the ratio is itself a double
\* and otherwise w or w - 1. (For the denominators and row counts here a product
\* that is not whole is at least 1 / den from a whole number, far beyond rounding.)
C5_SplitPartition ==
    (pc = "ready" /\ RatioInRange) =>
        LET n == NRows(df)
            k == NRows(train_X)
            exact == ratio.num * n
        IN  /\ IF exact % ratio.den # 0
               THEN k * ratio.den < exact /\ exact < (k + 1) * ratio.den
               ELSE IF ratio.den = Pow2(FloorLog2(ratio.den))
               THEN k * ratio.den = exact
               ELSE k * ratio.den = exact \/ (k + 1) * ratio.den = exact
            /\ SplitsAt(Select(df, FEATURES), train_X, test_X, k)
            /\ SplitsAt(Select(df, LABELS), train_y, test_y, k)

\* a split of a table whose ratio * n is a whole number, cut one row before it
C5_Witness ==
    /\ pc = "ready"
    /\ RatioInRange
    /\ NRows(train_X) >= 1 /\ NRows(test_X) >= 1
    /\ (NRows(train_X) + 1) * ratio.den = ratio.num * NRows(df)

\* C6: after lstm_preprocess on a non-empty table, train_X and test_X are arrays of
\* shape (samples, WINDOW_TIME_STEPS, FEATURE_SIZE) holding the elements of the rows
\* they were made from (stated for tables of two rows or more, which leave a row
\* once framed as supervised learning).
C6_LstmShapes ==
    (last = "lstm_preprocess" /\ NRows(df) >= 2) =>
        /\ outcome = "ok"
        /\ train_X.kind = "ndarray" /\ test_X.kind = "ndarray"
        /\ <<train_X.shape[2], train_X.shape[3]>> = LstmInputShape
        /\ <<test_X.shape[2], test_X.shape[3]>> = LstmInputShape
        /\ Len(train_X.flat) = train_X.shape[1] * train_X.shape[2] * train_X.shape[3]
        /\ Len(test_X.flat) = test_X.shape[1] * test_X.shape[2] * test_X.shape[3]

\* C7: df_original keeps the power and temperature readings of the table as it was
\* passed to the constructor, whatever is called afterwards.
C7_OriginalKept ==
    pc # "start" =>
        Select(df_original, ORIGINAL_FEATURES).data
            = Select(InputFrame(arg), ORIGINAL_FEATURES).data

C7_Witness ==
    /\ last = "predict"
    /\ train_y.kind = "Series"
    /\ model_fit.kind # "None"
    /\ NRows(df_original) >= 2
    /\ \E i \in 1..NRows(df_original) : df_original.data[i][3] = NaN
    /\ Column(df_caller, TEMPERATURE) # Column(df_original, TEMPERATURE)

====
